---- MODULE Spec2Model ----
(***************************************************************************)
(* Model of the PayPal order lifecycle and of the price quoting of         *)
(* src/app.py (Flask application "Oh La La Tours Bogota").                 *)
(*                                                                         *)
(*   - pricing:      PRICES_USD, quote_tour_usd, api_quote,                *)
(*                   PRICES_USD_PAYPAL, compute_price                      *)
(*   - gateway:      paypal_access_token, create_paypal_order,             *)
(*                   paypal_order, capture_paypal_order,                   *)
(*                   verify_paypal_capture                                 *)
(*   - reservation:  POST /reservation, the reservations table, the mails  *)
(*   - admin:        admin_login, admin_required, _csrf_check,             *)
(*                   admin_reservation_delete                              *)
(*                                                                         *)
(* Python values are modelled as follows.  A Decimal is a record           *)
(* [c |-> coefficient, e |-> digits after the point].  A dict is a TLA+    *)
(* record, read through Get (dict.get).  None is the string "None".  An    *)
(* exception leaving a function is the record [raised |-> <class name>].   *)
(***************************************************************************)
EXTENDS Integers, Sequences, FiniteSets, TLC

VARIABLES
    config,        \* process-wide configuration read from the environment
    reservations,  \* rows of the table "reservations", in insertion order
    next_id,       \* next value of the autoincrement primary key
    req,           \* per worker: the POST /reservation request being served
    admitted,      \* number of POST /reservation requests taken so far
    orders,        \* orders the gateway holds (created by /create-paypal-order)
    session,       \* per browser: the Flask session (is_admin, _csrf)
    http           \* last exchange served by a single-step endpoint

vars == <<config, reservations, next_id, req, admitted, orders, session, http>>

None == "None"

(***************************************************************************)
(* Bounds of the model.                                                    *)
(***************************************************************************)
\* party sizes submitted range over 0 .. MaxPeople (the cap of every tour is 6)
MaxPeople == 8
\* POST /reservation requests the workers take before they stop
MaxRequests == 3
\* orders the gateway may hold before order creation stops
MaxOrders == 1

(***************************************************************************)
(* Python built-ins.                                                       *)
(***************************************************************************)
\* dict.get(k): the value, None when the key is absent
Get(d, k) == IF k \in DOMAIN d THEN d[k] ELSE None

Min(a, b) == IF a <= b THEN a ELSE b
Max(a, b) == IF a >= b THEN a ELSE b

\* one character of a string, as a string of length 1
CharAt(s, i) == SubSeq(s, i, i)

UpperChars == <<"A","B","C","D","E","F","G","H","I","J","K","L","M",
                "N","O","P","Q","R","S","T","U","V","W","X","Y","Z">>
LowerChars == <<"a","b","c","d","e","f","g","h","i","j","k","l","m",
                "n","o","p","q","r","s","t","u","v","w","x","y","z">>

LowerChar(ch) ==
    IF \E i \in 1..26 : UpperChars[i] = ch
    THEN LowerChars[CHOOSE i \in 1..26 : UpperChars[i] = ch]
    ELSE ch

RECURSIVE Lower(_)
\* str.lower()
Lower(s) == IF Len(s) = 0 THEN ""
            ELSE LowerChar(CharAt(s, 1)) \o Lower(SubSeq(s, 2, Len(s)))

RECURSIVE LStrip(_)
LStrip(s) == IF Len(s) > 0 /\ CharAt(s, 1) = " "
             THEN LStrip(SubSeq(s, 2, Len(s))) ELSE s

RECURSIVE RStrip(_)
RStrip(s) == IF Len(s) > 0 /\ CharAt(s, Len(s)) = " "
             THEN RStrip(SubSeq(s, 1, Len(s) - 1)) ELSE s

\* str.strip()
Strip(s) == RStrip(LStrip(s))

\* s[:n]
Prefix(s, n) == SubSeq(s, 1, Min(Len(s), n))

Digits == <<"0","1","2","3","4","5","6","7","8","9">>
IsDigit(ch) == \E i \in 1..10 : Digits[i] = ch
DigitVal(ch) == (CHOOSE i \in 1..10 : Digits[i] = ch) - 1

RECURSIVE DigitsValue(_)
DigitsValue(s) == IF Len(s) = 0 THEN 0
                  ELSE 10 * DigitsValue(SubSeq(s, 1, Len(s) - 1))
                       + DigitVal(CharAt(s, Len(s)))

AllDigits(s) == Len(s) > 0 /\ \A i \in 1..Len(s) : IsDigit(CharAt(s, i))

\* A submitted value is [t |-> "int", v |-> n] (a JSON number),
\* [t |-> "str", v |-> s] (text) or [t |-> "none"] (absent / null).
IntV(n) == [t |-> "int", v |-> n]
StrV(s) == [t |-> "str", v |-> s]
NoneV == [t |-> "none"]

\* int(x): [ok |-> TRUE, v |-> n], or [ok |-> FALSE, raised |-> class] when
\* int() raises
PyInt(x) ==
    IF x.t = "int" THEN [ok |-> TRUE, v |-> x.v]
    ELSE IF x.t = "none" THEN [ok |-> FALSE, raised |-> "TypeError"]
    ELSE LET s == Strip(x.v) IN
         IF AllDigits(s) THEN [ok |-> TRUE, v |-> DigitsValue(s)]
         ELSE IF Len(s) > 1 /\ CharAt(s, 1) = "-" /\ AllDigits(SubSeq(s, 2, Len(s)))
              THEN [ok |-> TRUE, v |-> 0 - DigitsValue(SubSeq(s, 2, Len(s)))]
         ELSE IF Len(s) > 1 /\ CharAt(s, 1) = "+" /\ AllDigits(SubSeq(s, 2, Len(s)))
              THEN [ok |-> TRUE, v |-> DigitsValue(SubSeq(s, 2, Len(s)))]
         ELSE [ok |-> FALSE, raised |-> "ValueError"]

\* truthiness of a submitted value (x or default)
Truthy(x) == CASE x.t = "int" -> x.v # 0
               [] x.t = "str" -> x.v # ""
               [] OTHER -> FALSE

(***************************************************************************)
(* decimal.Decimal                                                         *)
(***************************************************************************)
Dec(c, e) == [c |-> c, e |-> e]

RECURSIVE Pow10(_)
Pow10(k) == IF k = 0 THEN 1 ELSE 10 * Pow10(k - 1)

\* Decimal * Decimal: exact
DecMul(a, b) == Dec(a.c * b.c, a.e + b.e)

\* q.quantize(Decimal("0.01"), rounding=ROUND_HALF_UP), for q >= 0
Quantize2(q) ==
    IF q.e <= 2 THEN Dec(q.c * Pow10(2 - q.e), 2)
    ELSE LET d == Pow10(q.e - 2) IN Dec((q.c + (d \div 2)) \div d, 2)

\* str(q) of a Decimal with two digits after the point, q >= 0
DecStr(q) ==
    LET cents == q.c % 100 IN
    ToString(q.c \div 100) \o "." \o
    (IF cents < 10 THEN "0" ELSE "") \o ToString(cents)

(***************************************************************************)
(* Price schedule of the quote API (src/app.py 647-687).                   *)
(***************************************************************************)
\* a schedule whose chorrera tiers overlap at 3 people
PRICES_USD_overlap ==
    [s \in {"monserrate", "zipaquira", "finca-cafe", "chorrera", "candelaria"} |->
       CASE s = "monserrate" ->
              [rules |-> << <<1, 1, 65>>, <<2, 6, 55>> >>, max_group |-> 6]
         [] s = "zipaquira" ->
              [rules |-> << <<1, 1, 120>>, <<2, 2, 100>>, <<3, 6, 90>> >>, max_group |-> 6]
         [] s = "finca-cafe" ->
              [rules |-> << <<1, 1, 150>>, <<2, 2, 105>>, <<3, 6, 95>> >>, max_group |-> 6]
         [] s = "chorrera" ->
              [rules |-> << <<1, 1, 125>>, <<2, 3, 115>>, <<3, 6, 100>> >>, max_group |-> 6]
         [] s = "candelaria" ->
              [rules |-> << <<1, 1, 40>>, <<2, 3, 35>>, <<4, 6, 33>> >>, max_group |-> 6]]

PRICES_USD ==
    [s \in {"monserrate", "zipaquira", "finca-cafe", "chorrera", "candelaria"} |->
       CASE s = "monserrate" ->
              [rules |-> << <<1, 1, 65>>, <<2, 6, 55>> >>, max_group |-> 6]
         [] s = "zipaquira" ->
              [rules |-> << <<1, 1, 120>>, <<2, 2, 100>>, <<3, 6, 90>> >>, max_group |-> 6]
         [] s = "finca-cafe" ->
              [rules |-> << <<1, 1, 150>>, <<2, 2, 105>>, <<3, 6, 95>> >>, max_group |-> 6]
         [] s = "chorrera" ->
              [rules |-> << <<1, 1, 125>>, <<2, 3, 115>>, <<4, 6, 100>> >>, max_group |-> 6]
         [] s = "candelaria" ->
              [rules |-> << <<1, 1, 40>>, <<2, 3, 35>>, <<4, 6, 33>> >>, max_group |-> 6]]

\* the loop "for (mn, mx, price) in rules: if mn <= n <= mx: ...; break":
\* "if mn <= n <= mx" (lines 710 and 997)
InRule(rule, n) == rule[1] <= n /\ n <= rule[2]

\* the index of the first rule containing n, 0 when no rule does
FirstRule(rules, n) ==
    LET hits == {i \in 1..Len(rules) : InRule(rules[i], n)}
    IN IF hits = {} THEN 0
       ELSE CHOOSE i \in hits : \A j \in hits : i <= j

\* the cap test off by one
GroupTooLarge_off(max_g, n) == max_g # 0 /\ n > max_g + 1

\* "if max_g and n > max_g" (line 705)
GroupTooLarge(max_g, n) == max_g # 0 /\ n > max_g

\* the total without the multiplication by the party size
QuoteTotal_unit(ppp, n) == Quantize2(ppp)

\* "total = (ppp * Decimal(n)).quantize(...)" (line 716)
QuoteTotal(ppp, n) == Quantize2(DecMul(ppp, Dec(n, 0)))

quote_tour_usd(slug, people) ==
    LET key == Lower(Strip(IF slug = None THEN "" ELSE slug))
    IN IF key \notin DOMAIN PRICES_USD
       THEN [ok |-> FALSE, reason |-> "unknown_tour"]
       ELSE
       LET conf  == PRICES_USD[key]
           p     == PyInt(people)
           n0    == IF p.ok THEN p.v ELSE 1
           n     == IF n0 < 1 THEN 1 ELSE n0
           max_g == conf.max_group
       IN IF GroupTooLarge(max_g, n)
          THEN [ok |-> FALSE, reason |-> "group_too_large", max |-> max_g]
          ELSE
          LET r == FirstRule(conf.rules, n) IN
          IF r = 0 THEN [ok |-> FALSE, reason |-> "no_rule"]
          ELSE
          LET ppp   == Dec(conf.rules[r][3], 0)
              total == QuoteTotal(ppp, n)
          IN [ok |-> TRUE, per_person |-> Quantize2(ppp), total |-> total,
              currency |-> "USD", people |-> n]

\* request.args.get("people", type=int): [ok |-> FALSE] stands for None
\* (the argument is absent, or int() raised on it)
ArgInt(x) == IF x.t = "none" THEN [ok |-> FALSE]
             ELSE LET p == PyInt(x) IN
                  IF p.ok THEN [ok |-> TRUE, v |-> p.v] ELSE [ok |-> FALSE]

\* GET /api/quote?tour=..&people=..: the status and the JSON body of the
\* response; q is the view's local variable q, the result of quote_tour_usd
api_quote(args) ==
    LET slug   == Lower(Strip(IF args.tour.t = "none" THEN "" ELSE args.tour.v))
        a      == ArgInt(args.people)
        people == IF ~a.ok \/ a.v = 0 THEN 1 ELSE a.v
        q      == quote_tour_usd(slug, IntV(people))
    IN IF ~q.ok
       THEN IF Get(q, "reason") = "group_too_large"
            THEN [status |-> 400, q |-> q,
                  body |-> [ok |-> FALSE,
                            message |-> [text |-> "group_too_large",
                                         max |-> Get(q, "max")]]]
            ELSE [status |-> 400, q |-> q,
                  body |-> [ok |-> FALSE,
                            message |-> [text |-> "unavailable"]]]
       ELSE [status |-> 200, q |-> q,
             body |-> [ok |-> TRUE,
                       per_person |-> DecStr(q.per_person),
                       total |-> DecStr(q.total),
                       currency |-> q.currency,
                       people |-> q.people]]

(***************************************************************************)
(* PayPal block (src/app.py 946-1178).                                     *)
(***************************************************************************)
\* a PayPal schedule left behind by a price change of the quote schedule
PRICES_USD_PAYPAL_stale ==
    [s \in {"monserrate", "zipaquira", "finca-cafe", "chorrera", "candelaria"} |->
       CASE s = "monserrate" -> << <<1, 1, 65>>, <<2, 6, 55>> >>
         [] s = "zipaquira"  -> << <<1, 1, 120>>, <<2, 2, 100>>, <<3, 6, 90>> >>
         [] s = "finca-cafe" -> << <<1, 1, 150>>, <<2, 2, 105>>, <<3, 6, 95>> >>
         [] s = "chorrera"   -> << <<1, 1, 125>>, <<2, 3, 110>>, <<4, 6, 100>> >>
         [] s = "candelaria" -> << <<1, 1, 40>>, <<2, 3, 35>>, <<4, 6, 33>> >>]

PRICES_USD_PAYPAL ==
    [s \in {"monserrate", "zipaquira", "finca-cafe", "chorrera", "candelaria"} |->
       CASE s = "monserrate" -> << <<1, 1, 65>>, <<2, 6, 55>> >>
         [] s = "zipaquira"  -> << <<1, 1, 120>>, <<2, 2, 100>>, <<3, 6, 90>> >>
         [] s = "finca-cafe" -> << <<1, 1, 150>>, <<2, 2, 105>>, <<3, 6, 95>> >>
         [] s = "chorrera"   -> << <<1, 1, 125>>, <<2, 3, 115>>, <<4, 6, 100>> >>
         [] s = "candelaria" -> << <<1, 1, 40>>, <<2, 3, 35>>, <<4, 6, 33>> >>]

\* _money2(q)
money2(q) == DecStr(Quantize2(q))

\* the clamp without its lower end
ClampPersons_upper(n) == Min(n, 6)

\* "n = max(1, min(n, 6))" (line 992)
ClampPersons(n) == Max(1, Min(n, 6))

\* compute_price(tour, persons) under configuration cfg:
\* [ok |-> TRUE, amount, desc], or [ok |-> FALSE, raised |-> "ValueError", ..]
compute_price(cfg, tour, persons) ==
    LET key == Lower(Strip(tour)) IN
    IF key \notin DOMAIN PRICES_USD_PAYPAL
    THEN [ok |-> FALSE, raised |-> "ValueError", msg |-> "Tour non tarife"]
    ELSE
    LET p  == PyInt(persons)
        n  == ClampPersons(IF p.ok THEN p.v ELSE 1)
        r  == FirstRule(PRICES_USD_PAYPAL[key], n)
    IN IF r = 0
       THEN [ok |-> FALSE, raised |-> "ValueError", msg |-> "Aucune regle de prix"]
       ELSE
       LET per_person_usd == Dec(PRICES_USD_PAYPAL[key][r][3], 0)
           total_usd      == DecMul(per_person_usd, Dec(n, 0))
           total_unit     == IF cfg.PAYPAL_CURRENCY = "USD" THEN total_usd
                             ELSE IF cfg.PAYPAL_CURRENCY = "COP"
                                  THEN DecMul(total_usd, cfg.COP_PER_UNIT)
                             ELSE total_usd
       IN [ok |-> TRUE,
           amount |-> money2(total_unit),
           desc |-> [tour |-> key, n |-> n, per_person_usd |-> per_person_usd.c]]

\* Replies the gateway can give to the token request of paypal_access_token
\* (lines 1020-1029): a 200 with a token, a non-2xx (raise_for_status
\* raises), no reply within HTTP_TIMEOUT (requests raises), a 200 whose body
\* is not the expected JSON (r.json() or js["access_token"] raises).
TokenReplies == {"ok", "http_error", "timeout", "bad_body"}

\* a token kept from an earlier request and handed out without a request
paypal_access_token_cached(reply) == [ok |-> TRUE, token |-> "TOKEN"]

paypal_access_token(reply) ==
    CASE reply = "ok"         -> [ok |-> TRUE, token |-> "TOKEN"]
      [] reply = "http_error" -> [ok |-> FALSE, raised |-> "HTTPError"]
      [] reply = "timeout"    -> [ok |-> FALSE, raised |-> "Timeout"]
      [] reply = "bad_body"   -> [ok |-> FALSE, raised |-> "ValueError"]

\* Outcomes of the order-creation request at the gateway (lines 1068-1072):
\* created says whether the gateway now holds the order, status is the HTTP
\* status of the reply (0 when there is none), kind is the reply:
\*   ok         2xx, JSON with an id
\*   no_id      2xx, JSON without id
\*   error_json status >= 400, JSON body
\*   error_text status >= 400, body that is not JSON
\*   bad_body   2xx, body that is not JSON (r.json() raises)
\*   timeout    no reply within HTTP_TIMEOUT (requests raises); the gateway
\*              may or may not have created the order
CreateReplies ==
    { [created |-> TRUE,  kind |-> "ok",         status |-> 201],
      [created |-> TRUE,  kind |-> "no_id",      status |-> 201],
      [created |-> FALSE, kind |-> "error_json", status |-> 422],
      [created |-> FALSE, kind |-> "error_json", status |-> 503],
      [created |-> FALSE, kind |-> "error_text", status |-> 429],
      [created |-> TRUE,  kind |-> "bad_body",   status |-> 200],
      [created |-> TRUE,  kind |-> "timeout",    status |-> 0],
      [created |-> FALSE, kind |-> "timeout",    status |-> 0] }

\* a transport that sends the call again when the gateway answers 429 or 503
Send_retry(call, script) ==
    IF script[1].status \in {429, 503}
    THEN [calls |-> <<call, call>>, reply |-> script[Min(2, Len(script))]]
    ELSE [calls |-> <<call>>, reply |-> script[1]]

\* requests.post(...) / requests.get(...) called directly (lines 1068-1072,
\* 1131-1135): script is what the gateway answers to the successive
\* attempts; one call is sent and its reply is the one the view sees
Send(call, script) == [calls |-> <<call>>, reply |-> script[1]]

\* the response Flask gives when the view raises (errorhandler(500), 934-936)
ServerError(exc) == [status |-> 500, body |-> [html |-> "500.html", exc |-> exc]]

\* "try: amount, description = compute_price(tour, persons)
\*  except ValueError as e: return {"error": str(e)}, 400" (lines 1050-1053):
\* TRUE when the view goes on to the gateway
PriceAccepted(price) == price.ok

\* POST /create-paypal-order with JSON body data; tk and cr are what the
\* gateway answers if asked, oid the id it would assign.
\* Result: the HTTP response, the gateway calls made in order, and the
\* order placed at the gateway (placed.any = FALSE when none).
create_paypal_order(cfg, data, tk, cr, oid) ==
    LET tour    == IF data.tour.t = "str" THEN Strip(data.tour.v) ELSE ""
        persons == IF Truthy(data.persons) THEN data.persons ELSE IntV(1)
        price   == compute_price(cfg, tour, persons)
        nothing == [any |-> FALSE]
    IN IF ~PriceAccepted(price)
       THEN [response |-> [status |-> 400, body |-> [error |-> price.msg]],
             calls |-> <<>>, placed |-> nothing]
       ELSE
       LET t == paypal_access_token(tk) IN
       IF ~t.ok
       THEN [response |-> ServerError(t.raised),
             calls |-> <<"token">>, placed |-> nothing]
       ELSE
       LET sent  == Send("create_order", <<cr>>)
           rp    == sent.reply
           order == [any |-> rp.created,
                     id |-> oid,
                     currency_code |-> cfg.PAYPAL_CURRENCY,
                     value |-> price.amount,
                     description |-> price.desc]
           made  == IF rp.created THEN order ELSE nothing
           resp  ==
             CASE rp.kind = "timeout"    -> ServerError("Timeout")
               [] rp.kind = "bad_body"   -> ServerError("ValueError")
               [] rp.kind = "error_json" ->
                    [status |-> 400, body |-> [error |-> "gateway_json_error"]]
               [] rp.kind = "error_text" ->
                    [status |-> 400, body |-> [error |-> "gateway_text_error"]]
               [] rp.kind = "no_id"      ->
                    [status |-> 400, body |-> [error |-> "CREATE_NO_ID", raw |-> "order"]]
               [] rp.kind = "ok"         ->
                    [status |-> 200, body |-> [id |-> oid]]
       IN [response |-> resp, calls |-> <<"token">> \o sent.calls, placed |-> made]

(***************************************************************************)
(* Inputs.                                                                 *)
(***************************************************************************)
\* tour identifiers clients submit
TourInputs == {"monserrate", "zipaquira", "finca-cafe", "chorrera", "candelaria",
               " Zipaquira ", "nope", ""}

\* party sizes as query-string text (GET /api/quote)
PeopleArgs == {NoneV, StrV("abc"), StrV("-1")}
              \cup {StrV(ToString(n)) : n \in 0..MaxPeople}

\* party sizes as JSON values (POST /create-paypal-order)
PersonsJson == {NoneV, StrV("abc"), StrV("7"), IntV(-1)}
               \cup {IntV(n) : n \in 0..MaxPeople}

QuoteArgs == [tour : {NoneV} \cup {StrV(t) : t \in TourInputs}, people : PeopleArgs]

OrderJsons == [tour : {NoneV} \cup {StrV(t) : t \in TourInputs}, persons : PersonsJson]

\* configurations the process can be started with (lines 239-246, 952-969)
Configs ==
    [PAYPAL_CURRENCY : {"USD", "COP", "EUR"},
     COP_PER_UNIT : {Dec(3800, 0), Dec(1000125, 3)},
     MAIL_CONFIGURED : BOOLEAN]

Workers == {"w1", "w2"}

\* the browsers holding a session cookie
Browsers == {"b1", "b2"}

\* a session without is_admin and without _csrf
NoSession == [is_admin |-> FALSE, csrf |-> None]

Idle == [pc |-> "idle"]

NoExchange == [endpoint |-> "none"]

\* a reply that is not used because the call is never made
NoReply == [kind |-> "none"]

(***************************************************************************)
(* The single-step endpoints: GET /api/quote, POST /create-paypal-order.   *)
(* http is the exchange being served; Respond hands the response to the    *)
(* client and frees the endpoint for the next request.                     *)
(***************************************************************************)
ApiQuote ==
    /\ http = NoExchange
    /\ \E args \in QuoteArgs :
         LET res == api_quote(args) IN
         http' = [endpoint |-> "api_quote", args |-> args, q |-> res.q,
                  response |-> [status |-> res.status, body |-> res.body],
                  calls |-> <<>>]
    /\ UNCHANGED <<config, session, reservations, next_id, req, admitted, orders>>

CreatePaypalOrder ==
    /\ http = NoExchange
    /\ Len(orders) < MaxOrders
    /\ \E data \in OrderJsons, tk \in TokenReplies, cr \in CreateReplies :
         LET oid == "ORDER" \o ToString(Len(orders) + 1)
             res == create_paypal_order(config, data, tk, cr, oid)
         IN /\ http' = [endpoint |-> "create_paypal_order", data |-> data,
                        response |-> res.response, calls |-> res.calls,
                        tk |-> IF Len(res.calls) > 0 THEN tk ELSE "none",
                        reply |-> IF Len(res.calls) > 1 THEN cr ELSE NoReply,
                        placed |-> res.placed]
            /\ orders' = IF res.placed.any THEN Append(orders, res.placed)
                         ELSE orders
    /\ UNCHANGED <<config, session, reservations, next_id, req, admitted>>

\* compute_price applied to a tour and a party size
ComputePrice ==
    /\ http = NoExchange
    /\ \E data \in OrderJsons :
         LET tour    == IF data.tour.t = "str" THEN Strip(data.tour.v) ELSE ""
             persons == IF Truthy(data.persons) THEN data.persons ELSE IntV(1)
         IN http' = [endpoint |-> "compute_price", data |-> data,
                     price |-> compute_price(config, tour, persons)]
    /\ UNCHANGED <<config, session, reservations, next_id, req, admitted, orders>>

Respond ==
    /\ http # NoExchange
    /\ http' = NoExchange
    /\ UNCHANGED <<config, session, reservations, next_id, req, admitted, orders>>

InitPay ==
    /\ config \in {c \in Configs : c.MAIL_CONFIGURED}
    /\ reservations = <<>>
    /\ next_id = 1
    /\ req = [w \in Workers |-> Idle]
    /\ admitted = 0
    /\ orders = <<>>
    /\ session = [b \in Browsers |-> NoSession]
    /\ http = NoExchange

NextPay == CreatePaypalOrder \/ Respond

\* the order-creation endpoint against the gateway
SpecPay == InitPay /\ [][NextPay]_vars

NextPricing == ApiQuote \/ ComputePrice \/ Respond

\* the two pricing paths: the quote endpoint and compute_price
SpecPricing == InitPay /\ [][NextPricing]_vars

(***************************************************************************)
(* POST /reservation (src/app.py 742-903) and verify_paypal_capture        *)
(* (1166-1178).  A worker serves one request at a time; the request is     *)
(* cut where it waits on a collaborator: the gateway (inside               *)
(* verify_paypal_capture), the database (commit) and the mail server.      *)
(***************************************************************************)
\* width of the column reservations.paypal_capture_id (lines 215 and 803)
CAPTURE_ID_WIDTH == 80

\* a capture id one character longer than the column
LongCaptureId ==
    "CAP" \o "0123456789012345678901234567890123456789"
          \o "01234567890123456789012345678901234567"

\* the captures the gateway holds, with their status
GatewayCaptures ==
    [id \in {"CAP123", "CAP999", LongCaptureId} |->
       IF id = "CAP999" THEN "PENDING" ELSE "COMPLETED"]

\* the order each capture paid: the tour and the party size
\* create_paypal_order priced it for (lines 1050 and 1056-1061)
CapturedOrders ==
    [id \in DOMAIN GatewayCaptures |-> [tour |-> "monserrate", n |-> 2]]

\* Replies of the gateway to GET /v2/payments/captures/<id> (lines 1170-1174):
\* (code is the HTTP status of the reply, 0 when there is none)
\*   json      2xx with the capture's JSON (its status field)
\*   error     status >= 400 (unknown id, 429, 5xx)
\*   bad_body  2xx whose body is not JSON (r.json() raises)
\*   timeout   no reply within HTTP_TIMEOUT (requests raises)
LookupReplies(capture_id) ==
    (IF capture_id \in DOMAIN GatewayCaptures
     THEN {[kind |-> "json", code |-> 200, status |-> GatewayCaptures[capture_id]]}
     ELSE {})
    \cup {[kind |-> "error", code |-> 503], [kind |-> "bad_body", code |-> 200],
          [kind |-> "timeout", code |-> 0]}

\* "return (r.json().get("status") == "COMPLETED")" (line 1178)
StatusCompleted(status) == status = "COMPLETED"

\* verify_paypal_capture(capture_id), tk and lk being what the gateway
\* answers to the token request and to the lookup if they are made:
\* verdict is "true", "false", or "raised" when an exception leaves the
\* function; calls are the gateway calls made, in order.
verify_paypal_capture(capture_id, tk, lk) ==
    IF capture_id = ""
    THEN [verdict |-> "false", calls |-> <<>>]
    ELSE
    LET t == paypal_access_token(tk) IN
    IF ~t.ok
    THEN [verdict |-> "raised", exc |-> t.raised, calls |-> <<"token">>]
    ELSE
    LET calls == <<"token", "get_capture">> IN
    CASE lk.kind = "timeout"  -> [verdict |-> "raised", exc |-> "Timeout", calls |-> calls]
      [] lk.kind = "error"    -> [verdict |-> "false", calls |-> calls]
      [] lk.kind = "bad_body" -> [verdict |-> "raised", exc |-> "ValueError", calls |-> calls]
      [] lk.kind = "json"     ->
           [verdict |-> IF StatusCompleted(lk.status) THEN "true" ELSE "false",
            calls |-> calls]

\* what the lookup reported: the status of the capture, or the kind of the
\* reply when it carried none
Reported(lk) == IF lk.kind = "json" THEN lk.status ELSE lk.kind

\* party sizes as form text (POST /reservation)
PersonsForm == {"2", "0", "7", "abc"}

CaptureInputs == {"", "CAP123", "CAP999", LongCaptureId}

FormBase == [nom |-> "Ana", email |-> "ana@example.org", date |-> "2025-03-01",
             tour |-> "monserrate", persons |-> "2",
             paypal_capture_id |-> "CAP123"]

\* the forms clients submit: the complete form with every party size, with
\* every capture id, and lacking one required field
ReservationForms ==
    {[FormBase EXCEPT !.persons = p] : p \in PersonsForm}
    \cup {[FormBase EXCEPT !.paypal_capture_id = c] : c \in CaptureInputs}
    \cup {[FormBase EXCEPT !.nom = " "], [FormBase EXCEPT !.email = ""],
          [FormBase EXCEPT !.date = ""], [FormBase EXCEPT !.tour = ""]}

\* what the gateway answers during verify_paypal_capture(capture_id): a
\* token reply and, when the token is granted, a lookup reply
VerifyReplies(capture_id) ==
    {[tk |-> tk, lk |-> NoReply] : tk \in TokenReplies \ {"ok"}}
    \cup {[tk |-> "ok", lk |-> lk] : lk \in LookupReplies(capture_id)}

\* the party size taken as submitted, without the limits
ValidatePersons_raw(text) ==
    LET p == PyInt(StrV(IF text = "" THEN "1" ELSE text)) IN
    IF ~p.ok THEN 1 ELSE p.v

\* "Validation PAX (1..6)" (lines 774-780)
ValidatePersons(text) ==
    LET p == PyInt(StrV(IF text = "" THEN "1" ELSE text)) IN
    IF ~p.ok THEN 1
    ELSE IF p.v < 1 THEN 1 ELSE IF p.v > 6 THEN 6 ELSE p.v

\* the required-field test without the tour
MissingFields_noTour(fullname, email, date_str, tour) ==
    fullname = "" \/ email = "" \/ date_str = ""

\* "if not fullname or not email or not date_str or not tour" (line 782)
MissingFields(fullname, email, date_str, tour) ==
    fullname = "" \/ email = "" \/ date_str = "" \/ tour = ""

\* the gate passing whenever the verification returned
CaptureConfirmed_any(verdict) == verdict # "raised"

\* "if not verify_paypal_capture(capture_id)" (line 787): TRUE when the view
\* goes on to the insertion
CaptureConfirmed(verdict) == verdict = "true"

\* the Reservation(...) built at lines 793-804
ReservationRow(id, f) ==
    [id |-> id,
     fullname |-> Prefix(f.fullname, 160),
     email |-> Prefix(f.email, 160),
     date_str |-> Prefix(f.date_str, 80),
     persons |-> f.persons,
     tour_slug |-> Prefix(f.tour, 80),
     paypal_capture_id |-> Prefix(f.capture_id, CAPTURE_ID_WIDTH)]

\* a request that has ended with outcome o
Ended(r, o) == [r EXCEPT !.pc = "done", !.outcome = o]

\* lines 756-789: the fields are read, the party size validated, the
\* required fields checked and the capture verified
ReservationPost(w) ==
    /\ req[w].pc = "idle"
    /\ admitted < MaxRequests
    /\ admitted' = admitted + 1
    /\ \E form \in ReservationForms :
       \E gw \in VerifyReplies(Strip(form.paypal_capture_id)) :
         LET fields == [fullname   |-> Strip(form.nom),
                        email      |-> Strip(form.email),
                        date_str   |-> Strip(form.date),
                        persons    |-> ValidatePersons(form.persons),
                        tour       |-> Lower(Strip(form.tour)),
                        capture_id |-> Strip(form.paypal_capture_id)]
             r0 == [pc |-> "commit", form |-> form, fields |-> fields,
                    verdict |-> "not_called", calls |-> <<>>,
                    reported |-> Reported(NoReply),
                    events |-> <<>>, row_id |-> 0, outcome |-> "pending"]
         IN IF MissingFields(fields.fullname, fields.email, fields.date_str,
                             fields.tour)
            THEN req' = [req EXCEPT ![w] = Ended(r0, "missing_fields")]
            ELSE
            LET v  == verify_paypal_capture(fields.capture_id, gw.tk, gw.lk)
                r1 == [r0 EXCEPT !.verdict = v.verdict, !.calls = v.calls,
                                 !.reported = IF Len(v.calls) = 2
                                              THEN Reported(gw.lk)
                                              ELSE Reported(NoReply)]
            IN IF v.verdict = "raised"
               THEN req' = [req EXCEPT ![w] = Ended(r1, "server_error")]
               ELSE IF ~CaptureConfirmed(v.verdict)
               THEN req' = [req EXCEPT ![w] = Ended(r1, "payment_not_confirmed")]
               ELSE req' = [req EXCEPT ![w] = r1]
    /\ UNCHANGED <<config, session, reservations, next_id, orders, http>>

\* the insertion whose except block does not return: after the rollback
\* the view goes on to the notification block
ReservationCommit_goOn(w) ==
    /\ req[w].pc = "commit"
    /\ \/ /\ reservations' = Append(reservations,
                                     ReservationRow(next_id, req[w].fields))
          /\ next_id' = next_id + 1
          /\ req' = [req EXCEPT ![w].pc = "mail",
                                ![w].row_id = next_id,
                                ![w].events = Append(@, "commit")]
       \/ /\ req' = [req EXCEPT ![w].pc = "mail",
                                ![w].events =
                                    @ \o <<"log:reservation_db_error", "rollback">>]
          /\ UNCHANGED <<reservations, next_id>>
    /\ UNCHANGED <<config, session, admitted, orders, http>>

\* lines 791-811: the row is added and committed; when that raises, the
\* session is rolled back and the request ends with the error flash
ReservationCommit(w) ==
    /\ req[w].pc = "commit"
    /\ \/ /\ reservations' = Append(reservations,
                                     ReservationRow(next_id, req[w].fields))
          /\ next_id' = next_id + 1
          /\ req' = [req EXCEPT ![w].pc = "mail",
                                ![w].row_id = next_id,
                                ![w].events = Append(@, "commit")]
       \/ /\ req' = [req EXCEPT
                       ![w] = Ended([req[w] EXCEPT !.events =
                                       @ \o <<"log:reservation_db_error", "rollback">>],
                                    "db_error")]
          /\ UNCHANGED <<reservations, next_id>>
    /\ UNCHANGED <<config, session, admitted, orders, http>>

\* what the mail server does with the two messages (lines 874 and 895)
MailResults == {"sent", "client_raises", "admin_raises"}

\* lines 813-899: the events of the notification block
MailEvents(configured, m) ==
    IF ~configured THEN <<"log:mail_not_configured">>
    ELSE CASE m = "sent" -> <<"mail_client", "mail_admin">>
           [] m = "client_raises" ->
                <<"mail_client_failed", "log:reservation_mail_error">>
           [] m = "admin_raises" ->
                <<"mail_client", "mail_admin_failed", "log:reservation_mail_error">>

\* the notification block without its try/except: a failed send ends the
\* request with the error page
OutcomeAfterMail_raise(events) ==
    IF \E i \in 1..Len(events) :
          events[i] \in {"mail_client_failed", "mail_admin_failed"}
    THEN "server_error" ELSE "success"

\* "except Exception as e: app.logger.error(...)" then the success flash
\* (lines 898-903): the outcome of the request after the notification block
OutcomeAfterMail(events) == "success"

\* lines 813-903
ReservationNotify(w) ==
    /\ req[w].pc = "mail"
    /\ \E m \in MailResults :
         LET ev == MailEvents(config.MAIL_CONFIGURED, m) IN
         req' = [req EXCEPT
                   ![w] = Ended([req[w] EXCEPT !.events = @ \o ev],
                                OutcomeAfterMail(ev))]
    /\ UNCHANGED <<config, session, reservations, next_id, admitted, orders, http>>

\* the response is returned and the worker takes the next request
ReservationReturn(w) ==
    /\ req[w].pc = "done"
    /\ req' = [req EXCEPT ![w] = Idle]
    /\ UNCHANGED <<config, session, reservations, next_id, admitted, orders, http>>

Init ==
    /\ config \in {c \in Configs : c.PAYPAL_CURRENCY = "USD"
                                   /\ c.COP_PER_UNIT = Dec(3800, 0)}
    /\ reservations = <<>>
    /\ next_id = 1
    /\ req = [w \in Workers |-> Idle]
    /\ admitted = 0
    /\ orders = <<>>
    /\ session = [b \in Browsers |-> NoSession]
    /\ http = NoExchange

Next ==
    \E w \in Workers :
       \/ ReservationPost(w)
       \/ ReservationCommit(w)
       \/ ReservationNotify(w)
       \/ ReservationReturn(w)

\* the reservation endpoint served by the workers
Spec == Init /\ [][Next]_vars

(***************************************************************************)
(* GET /paypal-order/<order_id> (1088-1108), POST /capture-paypal-order/   *)
(* <order_id> (1110-1164) and the four lifecycle operations together.      *)
(***************************************************************************)
\* the empty dict {}
EmptyDict == [k \in {} |-> None]

\* "PAYPAL_CLIENT_ID[-6:] if PAYPAL_CLIENT_ID else None" (lines 1105, 1146)
Last6(client_id) ==
    IF client_id = "" THEN None
    ELSE SubSeq(client_id, Max(1, Len(client_id) - 5), Len(client_id))

\* order ids clients put in the URL
OrderIds == {"ORDER1", "nope"}

\* TRUE when the gateway holds an order with this id
KnownOrder(placed, order_id) == \E i \in 1..Len(placed) : placed[i].id = order_id

\* Replies of the gateway to GET /v2/checkout/orders/<id> (lines 1091-1095
\* and 1117-1121); status is the HTTP status (0 when there is no reply):
\*   json      a JSON body; data is the body, payee the value of
\*             purchase_units[0].payee.merchant_id (None when the path is
\*             absent)
\*   empty     no content
\*   bad_body  content that is not JSON (r.json() raises)
\*   timeout   no reply within HTTP_TIMEOUT (requests raises)
OrderReplies(placed, order_id) ==
    (IF KnownOrder(placed, order_id)
     THEN {[kind |-> "json", status |-> 200,
            data |-> [id |-> order_id, status |-> "APPROVED"], payee |-> m]
             : m \in {"MERCHANT1", None}}
     ELSE {[kind |-> "json", status |-> 404,
            data |-> [name |-> "RESOURCE_NOT_FOUND"], payee |-> None]})
    \cup {[kind |-> "empty",    status |-> 503],
          [kind |-> "bad_body", status |-> 200],
          [kind |-> "timeout",  status |-> 0]}

\* what the gateway answers to the successive attempts of an order read: one
\* answer, or a 503 followed by the order
ReadScripts(placed, order_id) ==
    {<<r>> : r \in OrderReplies(placed, order_id)}
    \cup {<<[kind |-> "empty", status |-> 503], r>>
            : r \in {x \in OrderReplies(placed, order_id) : x.status = 200
                                                           /\ x.kind = "json"}}

\* GET /paypal-order/<order_id>: the response and the gateway calls made
paypal_order(cfg, order_id, tk, script) ==
    LET t == paypal_access_token(tk) IN
    IF ~t.ok
    THEN [response |-> ServerError(t.raised), calls |-> <<"token">>]
    ELSE
    LET sent  == Send("get_order", script)
        rd    == sent.reply
        calls == <<"token">> \o sent.calls
        last6 == Last6(cfg.PAYPAL_CLIENT_ID)
    IN CASE rd.kind = "timeout"  ->
              [response |-> ServerError("Timeout"), calls |-> calls]
         [] rd.kind = "bad_body" ->
              [response |-> ServerError("ValueError"), calls |-> calls]
         [] rd.kind = "empty"    ->
              [response |->
                 [status |-> rd.status,
                  body |-> [summary |-> [status |-> None,
                                         payee_merchant_id |-> None,
                                         server_client_id_last6 |-> last6],
                            raw |-> EmptyDict]],
               calls |-> calls]
         [] rd.kind = "json"     ->
              [response |->
                 [status |-> rd.status,
                  body |-> [summary |-> [status |-> Get(rd.data, "status"),
                                         payee_merchant_id |-> rd.payee,
                                         server_client_id_last6 |-> last6],
                            raw |-> rd.data]],
               calls |-> calls]

\* Replies of the gateway to POST /v2/checkout/orders/<id>/capture (lines
\* 1131-1135); captured says whether the gateway has captured the payment:
\*   json       2xx with the captured order; the key capture stands for
\*              purchase_units[0].payments.captures[0].id
\*   empty      2xx without content
\*   error_json status >= 400, JSON body
\*   error_text status >= 400, body that is not JSON
\*   bad_body   2xx, body that is not JSON (r.json() raises)
\*   timeout    no reply within HTTP_TIMEOUT (requests raises)
CaptureReplies(placed, order_id) ==
    (IF KnownOrder(placed, order_id)
     THEN {[kind |-> "json", status |-> 201, captured |-> TRUE,
            data |-> [id |-> order_id, status |-> "COMPLETED", capture |-> "CAP123"]],
           [kind |-> "json", status |-> 201, captured |-> TRUE,
            data |-> [id |-> order_id, status |-> "COMPLETED"]],
           [kind |-> "empty", status |-> 204, captured |-> TRUE],
           [kind |-> "bad_body", status |-> 200, captured |-> TRUE],
           [kind |-> "timeout", status |-> 0, captured |-> TRUE],
           [kind |-> "error_json", status |-> 403, captured |-> FALSE,
            data |-> [name |-> "PERMISSION_DENIED"]]}
     ELSE {[kind |-> "error_json", status |-> 404, captured |-> FALSE,
            data |-> [name |-> "RESOURCE_NOT_FOUND"]]})
    \cup {[kind |-> "error_json", status |-> 503, captured |-> FALSE,
           data |-> [name |-> "SERVICE_UNAVAILABLE"]],
          [kind |-> "error_text", status |-> 429, captured |-> FALSE,
           text |-> "Too Many Requests"],
          [kind |-> "timeout", status |-> 0, captured |-> FALSE]}

\* the capture is taken for rejected on server errors only
CaptureRejected_5xx(status) == status >= 500

\* "if r.status_code >= 400" (line 1136)
CaptureRejected(status) == status >= 400

\* part (A), lines 1114-1128: the dict pre after the read of the order
PreRead(rd) ==
    CASE rd.kind \in {"timeout", "bad_body"} -> EmptyDict
      [] rd.kind = "empty" -> [pre_status |-> None, payee_merchant_id |-> None]
      [] rd.kind = "json"  -> [pre_status |-> Get(rd.data, "status"),
                               payee_merchant_id |-> rd.payee]

\* POST /capture-paypal-order/<order_id>: the response, the gateway calls
\* made and whether the gateway captured the payment
capture_paypal_order(cfg, order_id, tk, rd, cp) ==
    LET t == paypal_access_token(tk) IN
    IF ~t.ok
    THEN [response |-> ServerError(t.raised), calls |-> <<"token">>,
          captured |-> FALSE]
    ELSE
    LET pre   == PreRead(rd)
        sent  == Send("capture", <<cp>>)
        r     == sent.reply
        calls == <<"token", "get_order">> \o sent.calls
    IN IF r.kind = "timeout"
       THEN [response |-> ServerError("Timeout"), calls |-> calls,
             captured |-> r.captured]
       ELSE IF CaptureRejected(r.status)
       THEN [response |->
               [status |-> 400,
                body |-> [error |-> "CAPTURE_FAILED",
                          reason |-> IF r.kind = "error_text"
                                     THEN [error |-> r.text]
                                     ELSE Get(r, "data"),
                          hint |-> [mode |-> cfg.PAYPAL_MODE,
                                    server_client_id_last6 |->
                                        Last6(cfg.PAYPAL_CLIENT_ID),
                                    order_payee_merchant_id |->
                                        Get(pre, "payee_merchant_id"),
                                    explain |-> "PERMISSION_DENIED"]]],
             calls |-> calls, captured |-> r.captured]
       ELSE IF r.kind \in {"bad_body", "error_text"}
       THEN [response |-> ServerError("ValueError"), calls |-> calls,
             captured |-> r.captured]
       ELSE
       LET data   == IF r.kind = "empty" THEN EmptyDict ELSE r.data
           status == IF "status" \in DOMAIN data THEN data.status ELSE "UNKNOWN"
           cap_id == IF "capture" \in DOMAIN data THEN data.capture
                     ELSE Get(data, "id")
       IN [response |-> [status |-> 200,
                         body |-> [id |-> cap_id, status |-> status,
                                   pre |-> pre, raw |-> data]],
           calls |-> calls, captured |-> r.captured]

\* what the gateway answers to the successive attempts of a capture lookup:
\* one answer, or a 503 followed by the capture
LookupScripts(capture_id) ==
    {<<r>> : r \in LookupReplies(capture_id)}
    \cup {<<[kind |-> "error", code |-> 503], r>>
            : r \in {x \in LookupReplies(capture_id) : x.kind = "json"}}

\* configurations of the lifecycle endpoints (lines 952-957)
LifecycleConfigs ==
    [PAYPAL_CURRENCY : {"USD"}, COP_PER_UNIT : {Dec(3800, 0)},
     MAIL_CONFIGURED : {TRUE}, PAYPAL_MODE : {"sandbox"},
     PAYPAL_CLIENT_ID : {"", "AZ-client-id-9f3k2q"}]

PaypalOrder ==
    /\ http = NoExchange
    /\ \E order_id \in OrderIds, tk \in TokenReplies :
       \E script \in ReadScripts(orders, order_id) :
         LET res == paypal_order(config, order_id, tk, script) IN
         http' = [endpoint |-> "paypal_order", order_id |-> order_id,
                  tk |-> tk,
                  script |-> IF Len(res.calls) > 1 THEN script ELSE <<>>,
                  response |-> res.response, calls |-> res.calls]
    /\ UNCHANGED <<config, session, reservations, next_id, req, admitted, orders>>

\* a capture that also records the payment in the reservation store
CapturePaypalOrder_store ==
    /\ http = NoExchange
    /\ \E order_id \in OrderIds, tk \in TokenReplies :
       \E rd \in OrderReplies(orders, order_id),
          cp \in CaptureReplies(orders, order_id) :
         LET res == capture_paypal_order(config, order_id, tk, rd, cp) IN
         /\ http' = [endpoint |-> "capture_paypal_order", order_id |-> order_id,
                     tk |-> tk,
                     rd |-> IF Len(res.calls) > 1 THEN rd ELSE NoReply,
                     cp |-> IF Len(res.calls) > 1 THEN cp ELSE NoReply,
                     response |-> res.response, calls |-> res.calls,
                     captured |-> res.captured]
         /\ reservations' = IF res.response.status = 200
                            THEN Append(reservations, [id |-> next_id,
                                                       paypal_capture_id |-> "CAP123"])
                            ELSE reservations
    /\ UNCHANGED <<config, session, next_id, req, admitted, orders>>

CapturePaypalOrder ==
    /\ http = NoExchange
    /\ \E order_id \in OrderIds, tk \in TokenReplies :
       \E rd \in OrderReplies(orders, order_id),
          cp \in CaptureReplies(orders, order_id) :
         LET res == capture_paypal_order(config, order_id, tk, rd, cp) IN
         http' = [endpoint |-> "capture_paypal_order", order_id |-> order_id,
                  tk |-> tk,
                  rd |-> IF Len(res.calls) > 1 THEN rd ELSE NoReply,
                  cp |-> IF Len(res.calls) > 1 THEN cp ELSE NoReply,
                  response |-> res.response, calls |-> res.calls,
                  captured |-> res.captured]
    /\ UNCHANGED <<config, session, reservations, next_id, req, admitted, orders>>

\* verify_paypal_capture applied to a capture id
VerifyPaypalCapture ==
    /\ http = NoExchange
    /\ \E capture_id \in CaptureInputs, tk \in TokenReplies :
       \E script \in LookupScripts(capture_id) :
         LET res == verify_paypal_capture(capture_id, tk, script[1]) IN
         http' = [endpoint |-> "verify_paypal_capture",
                  capture_id |-> capture_id,
                  tk |-> IF Len(res.calls) > 0 THEN tk ELSE "none",
                  script |-> IF Len(res.calls) > 1 THEN script ELSE <<>>,
                  verdict |-> res.verdict, calls |-> res.calls]
    /\ UNCHANGED <<config, session, reservations, next_id, req, admitted, orders>>

InitLifecycle ==
    /\ config \in LifecycleConfigs
    /\ reservations = <<>>
    /\ next_id = 1
    /\ req = [w \in Workers |-> Idle]
    /\ admitted = 0
    /\ orders = <<>>
    /\ session = [b \in Browsers |-> NoSession]
    /\ http = NoExchange

NextLifecycle ==
    \/ CreatePaypalOrder
    \/ PaypalOrder
    \/ CapturePaypalOrder
    \/ VerifyPaypalCapture
    \/ Respond

\* the four lifecycle operations against the gateway
SpecLifecycle == InitLifecycle /\ [][NextLifecycle]_vars

(***************************************************************************)
(* Admin: login (281-289), logout (303-306), the list of reservations      *)
(* (509-514) and the deletion of a reservation (562-576).                  *)
(***************************************************************************)
\* configurations of the admin pages (lines 253-254); ADMIN_PASSWORD is ""
\* when the variable is unset or empty
AdminConfigs ==
    [PAYPAL_CURRENCY : {"USD"}, COP_PER_UNIT : {Dec(3800, 0)},
     MAIL_CONFIGURED : {TRUE}, ADMIN_USER : {"admin"},
     ADMIN_PASSWORD : {"", "s3cret"}]

\* "if ADMIN_PASSWORD and user == ADMIN_USER and pw == ADMIN_PASSWORD"
\* (line 286)
LoginAccepted(cfg, user, pw) ==
    cfg.ADMIN_PASSWORD # "" /\ user = cfg.ADMIN_USER /\ pw = cfg.ADMIN_PASSWORD

\* POST /admin/login: the session after the request and the response
admin_login(cfg, sess, form) ==
    LET user == Strip(form.user)
        pw   == form.password
    IN IF LoginAccepted(cfg, user, pw)
       THEN [session |-> [sess EXCEPT !.is_admin = TRUE],
             response |-> [status |-> 302, location |-> "admin_home"]]
       ELSE [session |-> sess,
             response |-> [status |-> 200, flash |-> "invalid_credentials"]]

\* admin_required: "if session.get("is_admin")" (line 259)
admin_required(sess) == sess.is_admin

\* _csrf_get(): the token of the session, fresh being the value
\* secrets.token_hex(16) returns when the session has none
csrf_get(sess, fresh) == IF sess.csrf = None THEN fresh ELSE sess.csrf

\* the token test that only asks for a token
csrf_check_present(tok, sess) == tok # None /\ tok # ""

\* _csrf_check(tok): "bool(tok) and tok == session.get("_csrf")" (line 379)
csrf_check(tok, sess) == tok # None /\ tok # "" /\ tok = sess.csrf

\* values of secrets.token_hex(16)
Tokens == {"t1", "t2"}

\* the csrf field of a submitted form: absent, empty, or a token
FormTokens == {None, ""} \cup Tokens

LoginForms == [user : {"admin", " admin ", "root"},
               password : {"s3cret", "", "wrong"}]

\* the rows the store holds when the admin pages are used: two reservations
\* made through POST /reservation
StoredRows ==
    LET f == [fullname |-> "Ana", email |-> "ana@example.org",
              date_str |-> "2025-03-01", persons |-> 2,
              tour |-> "monserrate", capture_id |-> "CAP123"]
    IN <<ReservationRow(1, f),
         ReservationRow(2, [f EXCEPT !.fullname = "Luis", !.persons = 4])>>

\* reservation ids put in the URL of the delete request
DeleteIds == {1, 2, 9}

\* "Reservation.query.filter_by(id=reservation_id).delete(...)" (line 569)
DeleteRow(rows, reservation_id) ==
    LET Keep(r) == r.id # reservation_id IN SelectSeq(rows, Keep)

AdminLogin(b) ==
    /\ http = NoExchange
    /\ \E form \in LoginForms :
         LET res == admin_login(config, session[b], form) IN
         /\ session' = [session EXCEPT ![b] = res.session]
         /\ http' = [endpoint |-> "admin_login", browser |-> b,
                     user |-> form.user, password |-> form.password,
                     response |-> res.response]
    /\ UNCHANGED <<config, reservations, next_id, req, admitted, orders>>

\* GET /admin/logout: "session.pop("is_admin", None)"
AdminLogout(b) ==
    /\ http = NoExchange
    /\ session' = [session EXCEPT ![b].is_admin = FALSE]
    /\ http' = [endpoint |-> "admin_logout", browser |-> b,
                response |-> [status |-> 302, location |-> "index"]]
    /\ UNCHANGED <<config, reservations, next_id, req, admitted, orders>>

\* GET /admin/reservations: the page carries the token of the session
AdminReservations(b) ==
    /\ http = NoExchange
    /\ IF ~admin_required(session[b])
       THEN /\ http' = [endpoint |-> "admin_reservations", browser |-> b,
                        response |-> [status |-> 302, location |-> "admin_login"]]
            /\ UNCHANGED session
       ELSE \E fresh \in Tokens :
              LET tok == csrf_get(session[b], fresh) IN
              /\ session' = [session EXCEPT ![b].csrf = tok]
              /\ http' = [endpoint |-> "admin_reservations", browser |-> b,
                          response |-> [status |-> 200, csrf |-> tok]]
    /\ UNCHANGED <<config, reservations, next_id, req, admitted, orders>>

\* POST /admin/reservations/<id>/delete; db is what the database does with
\* the delete and its commit
AdminReservationDelete(b) ==
    /\ http = NoExchange
    /\ \E reservation_id \in DeleteIds, tok \in FormTokens, db \in {"ok", "raises"} :
         LET h == [endpoint |-> "admin_reservation_delete", browser |-> b,
                   reservation_id |-> reservation_id, csrf |-> tok]
         IN IF ~admin_required(session[b])
            THEN /\ http' = [outcome |-> "login_redirect"] @@ h
                 /\ UNCHANGED reservations
            ELSE IF ~csrf_check(tok, session[b])
            THEN /\ http' = [outcome |-> "session_expired"] @@ h
                 /\ UNCHANGED reservations
            ELSE IF db = "ok"
            THEN /\ reservations' = DeleteRow(reservations, reservation_id)
                 /\ http' = [outcome |-> "deleted"] @@ h
            ELSE /\ http' = [outcome |-> "delete_failed"] @@ h
                 /\ UNCHANGED reservations
    /\ UNCHANGED <<config, session, next_id, req, admitted, orders>>

InitAdmin ==
    /\ config \in AdminConfigs
    /\ reservations = StoredRows
    /\ next_id = Len(StoredRows) + 1
    /\ req = [w \in Workers |-> Idle]
    /\ admitted = 0
    /\ orders = <<>>
    /\ session = [b \in Browsers |-> NoSession]
    /\ http = NoExchange

NextAdmin ==
    \/ \E b \in Browsers :
          \/ AdminLogin(b)
          \/ AdminLogout(b)
          \/ AdminReservations(b)
          \/ AdminReservationDelete(b)
    \/ Respond

\* the admin pages over a store holding reservations
SpecAdmin == InitAdmin /\ [][NextAdmin]_vars

(***************************************************************************)
(* Properties.                                                             *)
(***************************************************************************)
\* the cap compute_price applies to a party size (line 992)
PAYPAL_MAX_GROUP == 6

\* the quote request for tour t and n people
QuoteOf(t, n) == [tour |-> StrV(t), people |-> StrV(ToString(n))]

\* the order-creation body for tour t and n people
OrderOf(t, n) == [tour |-> StrV(t), persons |-> IntV(n)]

\* the rules of a schedule entry that contain n
TiersOf(rules, n) == {i \in 1..Len(rules) : rules[i][1] <= n /\ n <= rules[i][2]}

\* the rows of the table inserted by the request of worker w
RowsOf(w) == {i \in 1..Len(reservations) : reservations[i].id = req[w].row_id}

\* C1: a POST /reservation whose capture verification answers false (empty
\* id, gateway error status, status other than COMPLETED) ends with the
\* payment-not-confirmed outcome, and no step of a request whose capture is
\* not verified changes the reservation rows.
C1_UnverifiedNotPersisted ==
    [][\A w \in Workers :
         ( /\ req'[w] # req[w]
           /\ req'[w].pc # "idle"
           /\ req'[w].verdict # "true" )
         => /\ reservations' = reservations
            /\ req'[w].verdict = "false" =>
                  /\ req'[w].pc = "done"
                  /\ req'[w].outcome = "payment_not_confirmed"]_vars

\* the capture CAP999 (PENDING) was looked up and refused while the table
\* already held a row
C1_Witness ==
    \E w \in Workers :
       /\ req[w].pc = "done"
       /\ req[w].form.paypal_capture_id = "CAP999"
       /\ req[w].reported = "PENDING"
       /\ req[w].outcome = "payment_not_confirmed"
       /\ Len(reservations) = 1

\* C2: the reservation table holds at most one row per paypal_capture_id.
C2_OneRowPerCapture ==
    \A i, j \in 1..Len(reservations) :
       reservations[i].paypal_capture_id = reservations[j].paypal_capture_id
       => i = j

\* C3: a request creates a row only if its capture was verified COMPLETED;
\* a request that verified its capture and ended in success created exactly
\* one row, whose paypal_capture_id is the verified capture id.
C3_RowIffVerified ==
    \A w \in Workers :
       req[w].pc # "idle" =>
          /\ req[w].row_id # 0 =>
                /\ req[w].verdict = "true"
                /\ Cardinality(RowsOf(w)) = 1
                /\ \A i \in RowsOf(w) :
                      reservations[i].paypal_capture_id
                         = Strip(req[w].form.paypal_capture_id)
          /\ (req[w].pc = "done" /\ req[w].outcome = "success") =>
                req[w].row_id # 0
          /\ (req[w].pc = "done" /\ req[w].verdict # "true") =>
                req[w].row_id = 0

\* C4: verify_paypal_capture returns true exactly when the lookup reported
\* COMPLETED, and never lets an exception out.
C4_VerifyNeverRaises ==
    \A w \in Workers :
       (req[w].pc # "idle" /\ req[w].verdict # "not_called") =>
          /\ req[w].verdict \in {"true", "false"}
          /\ (req[w].verdict = "true") <=> (req[w].reported = "COMPLETED")

\* the events of a request that are mail sends, attempted or done
IsMailEvent(e) ==
    e \in {"mail_client", "mail_admin", "mail_client_failed", "mail_admin_failed"}

\* the notification of the request of worker w failed or was skipped
NotificationFailed(w) ==
    \E i \in 1..Len(req[w].events) :
       req[w].events[i] \in {"mail_client_failed", "mail_admin_failed",
                             "log:mail_not_configured"}

\* C10: in POST /reservation a mail is attempted only after the commit of
\* the row; when the notification fails (a send raises, or mail is not
\* configured) the failure is logged, the committed row stays in the table
\* and the request ends with the success outcome.
C10_NotificationBestEffort ==
    \A w \in Workers :
       req[w].pc # "idle" =>
          /\ \A i \in 1..Len(req[w].events) :
                IsMailEvent(req[w].events[i]) =>
                   /\ \E k \in 1..(i - 1) : req[w].events[k] = "commit"
                   /\ Cardinality(RowsOf(w)) = 1
          /\ NotificationFailed(w) =>
                /\ req[w].pc = "done"
                /\ req[w].outcome = "success"
                /\ Cardinality(RowsOf(w)) = 1
                /\ \E i \in 1..Len(req[w].events) :
                      req[w].events[i] \in {"log:reservation_mail_error",
                                            "log:mail_not_configured"}

\* the mail to the client raised after the row was committed
C10_Witness ==
    \E w \in Workers :
       /\ req[w].pc = "done"
       /\ req[w].events = <<"commit", "mail_client_failed",
                            "log:reservation_mail_error">>
       /\ req[w].outcome = "success"
       /\ Cardinality(RowsOf(w)) = 1

\* C5: a POST /create-paypal-order whose tour is not in the price schedule
\* or whose party size exceeds the tour's max group size is rejected (400)
\* without any gateway call, and places no order at the gateway.
C5_NoOrderAboveCap ==
    \A t \in TourInputs, n \in 1..MaxPeople :
       ( /\ http.endpoint = "create_paypal_order"
         /\ http.data = OrderOf(t, n)
         /\ \/ t \notin DOMAIN PRICES_USD
            \/ n > PRICES_USD[t].max_group )
       => /\ http.response.status = 400
          /\ http.calls = <<>>
          /\ ~http.placed.any

\* C6: for every tour of the schedule and every party size above the tour's
\* max group size, quote_tour_usd answers group_too_large with max equal to
\* that max group size, and no price.
C6_GroupTooLarge ==
    \A t \in DOMAIN PRICES_USD, n \in 1..MaxPeople :
       ( /\ http.endpoint = "api_quote"
         /\ http.args = QuoteOf(t, n)
         /\ n > PRICES_USD[t].max_group )
       => http.q = [ok |-> FALSE, reason |-> "group_too_large",
                    max |-> PRICES_USD[t].max_group]

\* quote("monserrate", 7) was served and rejected with max 6
C6_Witness ==
    /\ http.endpoint = "api_quote"
    /\ http.args = QuoteOf("monserrate", 7)
    /\ ~http.q.ok
    /\ Get(http.q, "max") = 6

\* C7: for every tour of the schedule and every party size n within
\* [1, max group size], the quote succeeds, the per-person price is the price
\* of the one tier whose range contains n, and the total is that price times
\* n with two decimals (zipaquira, 4 people: 90.00 and 360.00).
C7_QuoteTotal ==
    \A t \in DOMAIN PRICES_USD, n \in 1..MaxPeople :
       ( /\ http.endpoint = "api_quote"
         /\ http.args = QuoteOf(t, n)
         /\ n <= PRICES_USD[t].max_group )
       => LET rules == PRICES_USD[t].rules
              tiers == TiersOf(rules, n)
          IN /\ http.q.ok
             /\ Cardinality(tiers) = 1
             /\ \A i \in tiers :
                   /\ http.q.per_person = Dec(rules[i][3] * 100, 2)
                   /\ http.q.total = Dec(rules[i][3] * n * 100, 2)
             /\ http.q.people = n
             /\ (t = "zipaquira" /\ n = 4) =>
                   /\ http.response.body.per_person = "90.00"
                   /\ http.response.body.total = "360.00"

\* quote("zipaquira", 4) was served with a price
C7_Witness ==
    /\ http.endpoint = "api_quote"
    /\ http.args = QuoteOf("zipaquira", 4)
    /\ http.q.ok

\* tiers in increasing order that cover 1..max once each and stop at max
TiersPartition(rules, max) ==
    /\ \A n \in 1..max : Cardinality(TiersOf(rules, n)) = 1
    /\ \A i \in 1..Len(rules) : 1 <= rules[i][1] /\ rules[i][1] <= rules[i][2]
                                 /\ rules[i][2] <= max
    /\ \A i \in 1..(Len(rules) - 1) : rules[i][2] < rules[i + 1][1]

\* C8: in both price tables the tiers of every tour partition
\* [1, max group size] (each size in exactly one tier, tiers increasing,
\* none past the max), and neither pricing path ever ends in "no rule".
C8_TiersPartition ==
    /\ \A t \in DOMAIN PRICES_USD :
          TiersPartition(PRICES_USD[t].rules, PRICES_USD[t].max_group)
    /\ \A t \in DOMAIN PRICES_USD_PAYPAL :
          TiersPartition(PRICES_USD_PAYPAL[t], PAYPAL_MAX_GROUP)
    /\ http.endpoint = "api_quote" => Get(http.q, "reason") # "no_rule"
    /\ http.endpoint = "compute_price" =>
          Get(http.price, "msg") # "Aucune regle de prix"

\* both paths priced the largest group of a three-tier tour
C8_Witness ==
    /\ http.endpoint = "compute_price"
    /\ http.data = OrderOf("chorrera", 6)
    /\ http.price.ok
    /\ http.price.desc.per_person_usd = 100

\* C9: GET /api/quote answers 200 {ok:true, per_person, total, currency,
\* people} exactly when the tour is known and the party size is within the
\* cap, otherwise 400 {ok:false, message}; a rejection for a group that is
\* too large also carries the max group size in a field max.
C9_QuoteResponse ==
    \A t \in TourInputs \ {" Zipaquira "}, n \in 1..MaxPeople :
       ( /\ http.endpoint = "api_quote"
         /\ http.args = QuoteOf(t, n) )
       => LET known  == t \in DOMAIN PRICES_USD
              within == known /\ n <= PRICES_USD[t].max_group
              body   == http.response.body
          IN /\ (http.response.status = 200) <=> within
             /\ within =>
                   /\ DOMAIN body = {"ok", "per_person", "total", "currency", "people"}
                   /\ body.ok
             /\ ~within =>
                   /\ http.response.status = 400
                   /\ {"ok", "message"} \subseteq DOMAIN body
                   /\ ~body.ok
             /\ (known /\ ~within) =>
                   /\ "max" \in DOMAIN body
                   /\ body.max = PRICES_USD[t].max_group

\* the number of times call c appears in calls
Count(calls, c) == Cardinality({i \in 1..Len(calls) : calls[i] = c})

\* C11: order creation and capture submission are never retried: one POST
\* /create-paypal-order request sends at most one order-creation call and
\* one POST /capture-paypal-order request sends at most one capture call,
\* whatever the gateway answers (503 and 429 included).
C11_NoAutomaticRetry ==
    /\ http.endpoint = "create_paypal_order"
         => Count(http.calls, "create_order") <= 1
    /\ http.endpoint = "capture_paypal_order"
         => Count(http.calls, "capture") <= 1

\* an order creation answered 503: one creation call was sent
C11_Witness ==
    /\ http.endpoint = "create_paypal_order"
    /\ http.reply.kind = "error_json"
    /\ http.reply.status = 503
    /\ Count(http.calls, "create_order") = 1
    /\ http.response.status = 400

\* C12: the reads get_order and verify_capture are retried on a 503: when
\* the gateway answers 503 and then the successful answer, the read yields
\* the successful result.
C12_ReadsRetried ==
    /\ (http.endpoint = "paypal_order" /\ Len(http.script) = 2)
         => /\ http.response.status = 200
            /\ Count(http.calls, "get_order") = 2
    /\ (http.endpoint = "verify_paypal_capture" /\ Len(http.script) = 2
        /\ StatusCompleted(http.script[2].status))
         => http.verdict = "true"

\* TRUE when a gateway call of the exchange h got no reply within the timeout
TimedOut(h) ==
    CASE h.endpoint = "create_paypal_order" ->
           h.tk = "timeout" \/ h.reply.kind = "timeout"
      [] h.endpoint = "paypal_order" ->
           h.tk = "timeout" \/ (Len(h.script) > 0 /\ h.script[1].kind = "timeout")
      [] h.endpoint = "capture_paypal_order" ->
           h.tk = "timeout" \/ h.rd.kind = "timeout" \/ h.cp.kind = "timeout"
      [] h.endpoint = "verify_paypal_capture" ->
           h.tk = "timeout" \/ (Len(h.script) > 0 /\ h.script[1].kind = "timeout")
      [] OTHER -> FALSE

\* C13: a timeout on any gateway call (token, order creation, order read,
\* capture, capture verification) never yields a success: the request
\* returns no order id and no capture result, and the verification is not
\* true; it ends with an error response.
C13_TimeoutNeverSuccess ==
    TimedOut(http)
      => IF http.endpoint = "verify_paypal_capture"
         THEN http.verdict # "true"
         ELSE http.response.status >= 400

\* C14: a capture the gateway rejects (status >= 400) is answered 400 with
\* error, reason and hint: reason is the gateway's error body, hint holds
\* the mode, the last characters of the configured client id and the payee
\* merchant id read before the capture (None when that read failed); no
\* capture id is returned.
C14_CaptureRejected ==
    (/\ http.endpoint = "capture_paypal_order"
     /\ http.cp.kind \in {"error_json", "error_text"})
      => /\ http.cp.status >= 400
         /\ http.response.status = 400
         /\ DOMAIN http.response.body = {"error", "reason", "hint"}
         /\ http.response.body.error = "CAPTURE_FAILED"
         /\ http.response.body.reason =
               (IF http.cp.kind = "error_json" THEN http.cp.data
                ELSE [error |-> http.cp.text])
         /\ http.response.body.hint.mode = config.PAYPAL_MODE
         /\ http.response.body.hint.server_client_id_last6 =
               Last6(config.PAYPAL_CLIENT_ID)
         /\ http.response.body.hint.order_payee_merchant_id =
               (IF http.rd.kind = "json" THEN http.rd.payee ELSE None)
         /\ ~http.captured

\* a capture rejected with 403 after the order was read with its payee
C14_Witness ==
    /\ http.endpoint = "capture_paypal_order"
    /\ http.cp.kind = "error_json"
    /\ http.cp.status = 403
    /\ http.rd.kind = "json"
    /\ http.response.status = 400
    /\ http.response.body.hint.order_payee_merchant_id = "MERCHANT1"
    /\ http.response.body.hint.server_client_id_last6 = "9f3k2q"

\* C15: when the settlement currency is not USD, the amount sent to the
\* gateway is the USD total times the configured conversion factor, rounded
\* half-up to 2 decimals; a USD amount is never labelled with another
\* currency code.
C15_ConvertedWhenNotUSD ==
    (/\ http.endpoint = "create_paypal_order"
     /\ Len(http.calls) = 2
     /\ config.PAYPAL_CURRENCY # "USD")
      => LET d         == http.placed.description
             total_usd == DecMul(Dec(d.per_person_usd, 0), Dec(d.n, 0))
         IN http.placed.any
              => /\ http.placed.currency_code = config.PAYPAL_CURRENCY
                 /\ http.placed.value =
                      money2(DecMul(total_usd, config.COP_PER_UNIT))

\* the party size of a request, as the view hands it to the pricing function
\* ("x or 1")
SubmittedSize(x) == IF Truthy(x) THEN x ELSE IntV(1)

\* TRUE when the submitted party size is absent, not a number, zero or
\* negative
NotAPositiveSize(x) ==
    \/ x.t = "none"
    \/ ~PyInt(x).ok
    \/ PyInt(x).v < 1

\* C16: the party size is coerced to an integer >= 1 before pricing: an
\* absent or non-numeric size, zero and a negative size are priced as one
\* person, by the quote and by the pricing of order creation.
C16_PartySizeCoerced ==
    /\ (/\ http.endpoint = "api_quote"
        /\ http.args.tour.t = "str"
        /\ Lower(Strip(http.args.tour.v)) \in DOMAIN PRICES_USD
        /\ NotAPositiveSize(http.args.people))
         => LET conf == PRICES_USD[Lower(Strip(http.args.tour.v))] IN
            /\ http.q.ok
            /\ http.q.people = 1
            /\ http.q.total = Quantize2(Dec(conf.rules[FirstRule(conf.rules, 1)][3], 0))
            /\ http.response.status = 200
    /\ (/\ http.endpoint = "compute_price"
        /\ http.data.tour.t = "str"
        /\ Lower(Strip(http.data.tour.v)) \in DOMAIN PRICES_USD_PAYPAL
        /\ NotAPositiveSize(http.data.persons))
         => LET rules == PRICES_USD_PAYPAL[Lower(Strip(http.data.tour.v))] IN
            /\ http.price.ok
            /\ http.price.desc.n = 1
            /\ http.price.desc.per_person_usd = rules[FirstRule(rules, 1)][3]

\* a negative party size priced as one person by compute_price
C16_Witness ==
    /\ http.endpoint = "compute_price"
    /\ http.data.tour = StrV("chorrera")
    /\ http.data.persons = IntV(-1)
    /\ http.price.ok
    /\ http.price.desc.n = 1
    /\ http.price.desc.per_person_usd = 125

\* the lifecycle operations
LifecycleEndpoints == {"create_paypal_order", "paypal_order",
                       "capture_paypal_order", "verify_paypal_capture"}

\* C17: every lifecycle operation fetches an access token as its first
\* gateway call, once per request; when the token fetch fails the operation
\* makes no further gateway call and yields no order id, no capture and no
\* confirmed verification (hence no reservation).
C17_FreshTokenFirst ==
    http.endpoint \in LifecycleEndpoints
      => /\ Len(http.calls) > 0
              => http.calls[1] = "token" /\ Count(http.calls, "token") = 1
         /\ http.tk \notin {"ok", "none"}
              => /\ http.calls = <<"token">>
                 /\ CASE http.endpoint = "create_paypal_order" ->
                           ~http.placed.any /\ http.response.status = 500
                      [] http.endpoint = "paypal_order" ->
                           http.response.status = 500
                      [] http.endpoint = "capture_paypal_order" ->
                           ~http.captured /\ http.response.status = 500
                      [] http.endpoint = "verify_paypal_capture" ->
                           ~CaptureConfirmed(http.verdict)

\* a capture request whose token fetch was answered with an error status
C17_Witness ==
    /\ http.endpoint = "capture_paypal_order"
    /\ http.tk = "http_error"
    /\ http.calls = <<"token">>
    /\ http.response.status = 500
    /\ Len(orders) = 1

\* C18: order creation, order read and capture leave the local state as it
\* was: the reservation store and the process-wide variables do not change.
C18_LifecycleStateless ==
    [][/\ reservations' = reservations
       /\ next_id' = next_id
       /\ config' = config
       /\ req' = req
       /\ admitted' = admitted]_vars

\* an order was created and captured, and the reservation store is empty
C18_Witness ==
    /\ http.endpoint = "capture_paypal_order"
    /\ http.response.status = 200
    /\ http.captured
    /\ Len(orders) = 1
    /\ reservations = <<>>
    /\ next_id = 1

\* C19: every stored reservation corresponds to the payment made: its tour
\* and party size are those of the order whose capture was verified.
C19_RowMatchesPayment ==
    \A i \in 1..Len(reservations) :
       LET row == reservations[i] IN
       row.paypal_capture_id \in DOMAIN CapturedOrders
         => /\ row.tour_slug = CapturedOrders[row.paypal_capture_id].tour
            /\ row.persons = CapturedOrders[row.paypal_capture_id].n

\* C20: the two pricing paths agree: with settlement currency USD, whenever
\* the quote succeeds compute_price yields the quoted total for the same
\* tour and party size, and a tour identifier is accepted by one path
\* exactly when it is accepted by the other.
C20_PricingPathsAgree ==
    /\ (http.endpoint = "api_quote" /\ config.PAYPAL_CURRENCY = "USD")
         => LET tour  == IF http.args.tour.t = "str" THEN Strip(http.args.tour.v)
                         ELSE ""
                price == compute_price(config, tour, SubmittedSize(http.args.people))
            IN /\ http.q.ok => price.ok /\ price.amount = DecStr(http.q.total)
               /\ (Get(http.q, "reason") = "unknown_tour") <=>
                     (~price.ok /\ price.msg = "Tour non tarife")
    /\ (http.endpoint = "compute_price" /\ config.PAYPAL_CURRENCY = "USD")
         => LET slug == IF http.data.tour.t = "str" THEN http.data.tour.v ELSE None
                q    == quote_tour_usd(slug, SubmittedSize(http.data.persons))
            IN /\ q.ok => http.price.ok /\ http.price.amount = DecStr(q.total)
               /\ http.price.ok => Get(q, "reason") # "unknown_tour"

\* chorrera for 3 people quoted at 345.00, the amount compute_price yields
C20_Witness ==
    /\ http.endpoint = "api_quote"
    /\ config.PAYPAL_CURRENCY = "USD"
    /\ http.args.tour = StrV("chorrera")
    /\ http.args.people = StrV("3")
    /\ http.q.ok
    /\ DecStr(http.q.total) = "345.00"
    /\ compute_price(config, "chorrera", IntV(3)).amount = "345.00"

\* TRUE when the request of worker w has sent a notification mail
MailSent(w) == \E i \in 1..Len(req[w].events) : IsMailEvent(req[w].events[i])

\* C21: a POST /reservation lacking name, email, date or tour is rejected
\* before the capture verification: no gateway call, no row and no
\* notification, even when the submitted capture id would verify as
\* COMPLETED.
C21_MissingFieldsRejectedFirst ==
    [][\A w \in Workers :
         (/\ req'[w] # req[w]
          /\ req'[w].pc # "idle"
          /\ \/ req'[w].fields.fullname = ""
             \/ req'[w].fields.email = ""
             \/ req'[w].fields.date_str = ""
             \/ req'[w].fields.tour = "")
           => /\ req'[w].pc = "done"
              /\ req'[w].outcome = "missing_fields"
              /\ req'[w].calls = <<>>
              /\ req'[w].verdict = "not_called"
              /\ req'[w].events = <<>>
              /\ req'[w].row_id = 0
              /\ reservations' = reservations]_vars

\* a request without tour, with a capture id the gateway holds as COMPLETED,
\* has ended without any gateway call
C21_Witness ==
    \E w \in Workers :
       /\ req[w].pc = "done"
       /\ req[w].fields.tour = ""
       /\ req[w].fields.capture_id = "CAP123"
       /\ StatusCompleted(GatewayCaptures[req[w].fields.capture_id])
       /\ req[w].outcome = "missing_fields"
       /\ req[w].calls = <<>>

\* TRUE when the insertion of the request of worker w failed
InsertFailed(r) ==
    \E i \in 1..Len(r.events) : r.events[i] = "log:reservation_db_error"

\* C22: when the capture is verified and the insertion fails, the session is
\* rolled back, the store gets no row, no notification is sent and the
\* request ends with the error outcome, never with the success message.
C22_InsertFailureRollsBack ==
    [][\A w \in Workers :
         (/\ req'[w] # req[w]
          /\ req'[w].pc # "idle"
          /\ InsertFailed(req'[w]))
           => /\ req[w].pc = "commit"
              /\ req[w].verdict = "true"
              /\ req'[w].events = <<"log:reservation_db_error", "rollback">>
              /\ req'[w].pc = "done"
              /\ req'[w].outcome = "db_error"
              /\ req'[w].row_id = 0
              /\ reservations' = reservations]_vars

\* a verified request whose insertion failed has ended with the error
C22_Witness ==
    \E w \in Workers :
       /\ req[w].pc = "done"
       /\ req[w].verdict = "true"
       /\ InsertFailed(req[w])
       /\ req[w].outcome = "db_error"
       /\ ~MailSent(w)

\* the party size a submitted text stands for, within the limits 1..6
StoredSize(text) ==
    LET p == PyInt(StrV(text)) IN
    IF ~p.ok THEN 1 ELSE IF p.v < 1 THEN 1 ELSE IF p.v > 6 THEN 6 ELSE p.v

\* C23: every reservation row has persons in 1..6: a submitted size below 1
\* or unparseable is stored as 1, a size above 6 is stored as 6.
C23_PersonsInRange ==
    /\ \A i \in 1..Len(reservations) : reservations[i].persons \in 1..6
    /\ \A w \in Workers :
         (req[w].pc # "idle" /\ req[w].row_id # 0)
           => \A i \in RowsOf(w) :
                 reservations[i].persons = StoredSize(req[w].form.persons)

\* a request submitted with 7 people has its row stored with 6
C23_Witness ==
    \E w \in Workers :
       /\ req[w].pc # "idle"
       /\ req[w].form.persons = "7"
       /\ req[w].row_id # 0
       /\ \E i \in RowsOf(w) : reservations[i].persons = 6

\* C24: a reservation row is removed only by a delete request made in a
\* session logged in as admin (is_admin set by a login with the configured
\* user and the configured, non-empty password) that submits the CSRF token
\* stored in that session; a delete request without admin session, or with
\* a missing or different token, leaves the store unchanged.
C24_DeleteNeedsAdminAndToken ==
    [][/\ reservations' # reservations
            => /\ http'.endpoint = "admin_reservation_delete"
               /\ session[http'.browser].is_admin
               /\ http'.csrf \notin {None, ""}
               /\ http'.csrf = session[http'.browser].csrf
               /\ http'.outcome = "deleted"
       /\ (/\ http'.endpoint = "admin_reservation_delete"
           /\ \/ ~session[http'.browser].is_admin
              \/ http'.csrf \in {None, ""}
              \/ http'.csrf # session[http'.browser].csrf)
            => reservations' = reservations
       /\ \A b \in Browsers :
            (session'[b].is_admin /\ ~session[b].is_admin)
              => /\ http'.endpoint = "admin_login"
                 /\ http'.browser = b
                 /\ Strip(http'.user) = config.ADMIN_USER
                 /\ http'.password = config.ADMIN_PASSWORD
                 /\ config.ADMIN_PASSWORD # ""]_vars

\* a logged-in admin submitting the token of the session has removed a row
C24_Witness ==
    /\ http.endpoint = "admin_reservation_delete"
    /\ http.outcome = "deleted"
    /\ session[http.browser].is_admin
    /\ http.csrf = session[http.browser].csrf
    /\ Len(reservations) < Len(StoredRows)

====
